---------------------------- MODULE Spec2Model ----------------------------
(***************************************************************************)
(* The relaxation solvers of the potential-flow scripts:                   *)
(*   Freestream.py     solve_stream_function                               *)
(*   Cylinder.py       solve_stream_function_with_circle                   *)
(*   Step(w-error).py  solve_stream_function_with_step                     *)
(*                                                                         *)
(* Real numbers are fixed point: an integer n stands for n / Scale, and    *)
(* every arithmetic result is the exact value rounded once to the nearest  *)
(* representable number (ties to even), as IEEE arithmetic rounds.  Scale  *)
(* is a multiple of 10^6 so that the literal 1e-6 is representable, and    *)
(* finer than it, so that changes below the tolerance exist.               *)
(*                                                                         *)
(* The point-measurement tool of Image_Interrogation/Matplotlib example.py *)
(* (the handler on_click) is modelled beside them, with its own variables  *)
(* and its own specification SpecClick.                                    *)
(*                                                                         *)
(* Grid sizes are small and the iteration caps (5000 / 2000 / 1000 in the  *)
(* scripts) are scaled down with them, keeping their order, so that both   *)
(* exits of the loop - tolerance met and cap exhausted - occur.            *)
(***************************************************************************)
EXTENDS Integers, Sequences, FiniteSets, TLC

VARIABLES
    solver,      \* which script runs: "free", "circle" or "step"
    nx, ny,      \* grid size (script globals nx, ny)
    U_inf,       \* free stream velocity (script global U_inf), an integer
    val,         \* argument of the current call: circle_radius in tenths,
                 \* step_height in twentieths (0 in Freestream)
    psi,         \* the working field, psi[i][j], i in 0..ny-1, j in 0..nx-1
    psi_old,     \* the copy taken at the head of the sweep
    mask,        \* circle_mask / solid_mask
    iteration,   \* loop variable of "for iteration in range(cap)"
    ci, cj,      \* loop variables i, j of the relaxation loops
    pc,          \* position: idle, loop, relax, reapply, check, return, raised
    ret,         \* value the last completed call returned (NoRet before)
    printed,     \* N of the last "Converged after N iterations" line, 0: none
    err,         \* name of the exception the last call raised, "" if none
    psi0,        \* history: the field right after the initial imprint
    hist,        \* history: max |psi - psi_old| of each sweep of this call
    order,       \* history: cells the relaxation assigned in this sweep
    first,       \* history: argument and result of the first completed call,
                 \* and whether a call with another argument followed it
    untouched,   \* history: the cells no imprint of this call assigns
    seeded,      \* TRUE while the field evolves from a seeded (linear) field
    laplacian,   \* what compute_laplacian returned for the last solve
    points,      \* Matplotlib example.py: the module-level list points
    artists,     \* what on_click has drawn on ax, in drawing order
    redraws,     \* number of fig.canvas.draw_idle() requests
    events,      \* history: the click events handled so far
    prev         \* history: points, artists, redraws before the last event

vars == <<solver, nx, ny, U_inf, val, psi, psi_old, mask, iteration, ci, cj,
          pc, ret, printed, err, psi0, hist, order, first, untouched,
          seeded, laplacian, points, artists, redraws, events, prev>>

\* The variables of the measurement tool, and those of the solvers.
clickvars == <<points, artists, redraws, events, prev>>
solvervars == <<solver, nx, ny, U_inf, val, psi, psi_old, mask, iteration, ci,
                cj, pc, ret, printed, err, psi0, hist, order, first,
                untouched, seeded, laplacian>>

----------------------------------------------------------------------------
(* Bounds and constants *)

\* Scaled-down iteration caps (range(5000), range(2000), range(1000)).
CapFree == 50
CapCircle == 26
CapStep == 24

\* Units per 1.0.
Scale == 16 * 1000000

\* The literal 1e-6 of the convergence test.
tolerance == Scale \div 1000000

\* Denominators of the call arguments: a radius is val / 10, a height is
\* val / 20 (so that the clip limit 1.8 is the integer 36).
RadiusDen == 2 * 5
HeightDen == 4 * 5

\* np.clip(step_height, 0, 1.8): the upper limit, in twentieths.
ClipHi == 36

Abs(a) == IF a < 0 THEN -a ELSE a

Max(S) == CHOOSE a \in S : \A b \in S : b <= a

\* n / d rounded to the nearest integer, ties to even (d > 0).
RoundDiv(n, d) ==
    LET q == n \div d
        r == n % d
    IN  IF 2 * r > d \/ (2 * r = d /\ q % 2 = 1) THEN q + 1 ELSE q

\* One digit of a long division of x / d in radix f: <<quotient, rest>>.
LongStep(acc, f, d) ==
    <<acc[1] * f + (acc[2] * f) \div d, (acc[2] * f) % d>>

\* The real number n / d in units: n * Scale / d rounded to nearest, by
\* long division so that no intermediate exceeds 32 bits (0 < d < 10^7).
Units(n, d) ==
    LET q == n \div d
        r == n % d
        a == LongStep(LongStep(LongStep(LongStep(<<0, r>>, 16, d), 100, d),
                               100, d), 100, d)
        up == 2 * a[2] > d \/ (2 * a[2] = d /\ a[1] % 2 = 1)
    IN  q * Scale + a[1] + (IF up THEN 1 ELSE 0)

\* np.linspace(-1, 1, n)[k]
LinSym(k, n) == Units(2 * k - (n - 1), n - 1)

\* np.linspace(0, 2, n)[k]
LinPos(k, n) == Units(2 * k, n - 1)

Rows == 0 .. (ny - 1)
Cols == 0 .. (nx - 1)

\* The cells of "for i in range(1, ny-1): for j in range(1, nx-1)"
Interior == (1 .. (ny - 2)) \X (1 .. (nx - 2))

\* np.zeros((ny, nx))
Zeros == [i \in Rows |-> [j \in Cols |-> 0]]

\* np.zeros((ny, nx), dtype=bool)
NoMask == [i \in Rows |-> [j \in Cols |-> FALSE]]

\* y of the current solver: Freestream spans 0..2, the others -1..1.
y(i) == IF solver = "free" THEN LinPos(i, ny) ELSE LinSym(i, ny)
x(j) == IF solver = "free" THEN LinPos(j, nx) ELSE LinSym(j, nx)

\* f[:, j] = v(i)  /  f[i, a:b] = c   (Python slices, b exclusive)
SetCol(f, j, col) == [i \in Rows |-> [f[i] EXCEPT ![j] = col[i]]]
SetRow(f, i, a, b, c) ==
    [f EXCEPT ![i] = [j \in Cols |-> IF a <= j /\ j < b THEN c ELSE f[i][j]]]

----------------------------------------------------------------------------
(* Freestream.py *)

FreeLeft(i) == U_inf * y(i)
FreeCol == [i \in Rows |-> FreeLeft(i)]

\* Lines 29-38 and 52-55: left, right, bottom, top, in this order.
ImprintFree(f) ==
    SetRow(SetRow(SetCol(SetCol(f, 0, FreeCol), nx - 1, FreeCol),
                  0, 0, nx, 0),
           ny - 1, 0, nx, U_inf * 2 * Scale)

----------------------------------------------------------------------------
(* Cylinder.py *)

\* distance_from_center <= circle_radius at grid point (i, j), for the
\* radius r / RadiusDen: x = (2j - (nx-1)) / (nx-1), y likewise.
InCircle(i, j, r) ==
    LET mx == nx - 1
        my == ny - 1
        a == (2 * j - mx) * my
        b == (2 * i - my) * mx
    IN  /\ r >= 0
        /\ (a * a + b * b) * RadiusDen * RadiusDen <= r * r * mx * mx * my * my

circle_mask(r) == [i \in Rows |-> [j \in Cols |-> InCircle(i, j, r)]]

\* psi[m] = 0.0
ZeroMasked(f, m) ==
    [i \in Rows |-> [j \in Cols |-> IF m[i][j] THEN 0 ELSE f[i][j]]]

SymLeft(i) == U_inf * y(i)
SymCol == [i \in Rows |-> SymLeft(i)]

\* Lines 31-45 and 58-64: left, right, bottom, top, circle.
ImprintCircle(f, m) ==
    ZeroMasked(SetRow(SetRow(SetCol(SetCol(f, 0, SymCol), nx - 1, SymCol),
                             0, 0, nx, -U_inf * Scale),
                      ny - 1, 0, nx, U_inf * Scale),
               m)

----------------------------------------------------------------------------
(* Step(w-error).py *)

step_start_idx == nx \div 2

step_height_clamped(h) == IF h < 0 THEN 0 ELSE IF h > ClipHi THEN ClipHi ELSE h

\* int((step_height_clamped + 1) / 2 * (ny - 1))
step_idx(h) ==
    ((step_height_clamped(h) + HeightDen) * (ny - 1)) \div (2 * HeightDen)

\* y[i] >= y_exit_bottom, with y_exit_bottom = -1 + step_height_clamped
AboveExitBottom(i, h) ==
    2 * HeightDen * i >= step_height_clamped(h) * (ny - 1)

\* The exit value of row i (lines 47-50): with yb = y_exit_bottom,
\* U*yb + (U*1 - U*yb) * (y[i] - yb) / (1 - yb) * velocity_ratio, where
\* velocity_ratio = 2 / (2 - step_height_clamped); as one fraction.
ExitValue(i, h) ==
    LET hc == step_height_clamped(h)
        m == ny - 1
        e == 2 * HeightDen - hc
    IN  Units(U_inf * ((hc - HeightDen) * m * e
                       + 2 * HeightDen * (2 * HeightDen * i - hc * m)),
              HeightDen * m * e)

\* U_inf * (-1 + step_height), with the height as given (not clamped)
SurfaceValue(h) == Units(U_inf * (h - HeightDen), HeightDen)

StepLeft(f) == SetCol(f, 0, SymCol)

StepRight(f, h) ==
    [i \in Rows |->
        [f[i] EXCEPT ![nx - 1] =
            IF AboveExitBottom(i, h) THEN ExitValue(i, h) ELSE f[i][nx - 1]]]

StepTop(f) == SetRow(f, ny - 1, 0, nx, U_inf * Scale)

StepBottomBefore(f) == SetRow(f, 0, 0, step_start_idx, -U_inf * Scale)

\* Lines 56-62 (and 97-103): the step surface and its vertical wall, or
\* the rest of the bottom wall.
StepWall(f, h) ==
    IF h > 0
    THEN LET g == SetRow(f, step_idx(h), step_start_idx, nx, SurfaceValue(h))
         IN  [i \in Rows |->
                IF 1 <= i /\ i < step_idx(h)
                THEN [g[i] EXCEPT ![step_start_idx] = -U_inf * Scale]
                ELSE g[i]]
    ELSE SetRow(f, 0, step_start_idx, nx, -U_inf * Scale)

\* Lines 37-65: left, right, bottom before the step, step, top.
ImprintStep(f, h) ==
    StepTop(StepWall(StepBottomBefore(StepRight(StepLeft(f), h)), h))

\* Lines 84-103: left, right, top, bottom before the step, step.
ReimprintStep(f, h) ==
    StepWall(StepBottomBefore(StepTop(StepRight(StepLeft(f), h))), h)

\* Lines 68-71
solid_mask(h) ==
    [i \in Rows |-> [j \in Cols |->
        h > 0 /\ i <= step_idx(h) /\ j >= step_start_idx]]

----------------------------------------------------------------------------
(* The three solvers, step by step *)

\* The scripts that run: <<solver, nx, ny, U_inf>>.  ny - 1 divides
\* 2 * Scale, so that the rows' y values are exact.
Configs ==
    { <<"free", 2, 2, 1>>, <<"free", 1, 3, 1>>, <<"free", 3, 3, 2>>,
      <<"free", 4, 3, 1>>, <<"free", 6, 6, 1>>, <<"free", 9, 9, 2>>,
      <<"circle", 3, 2, 1>>, <<"circle", 5, 5, 2>>, <<"circle", 6, 6, 1>>,
      <<"circle", 5, 5, 1>>,
      <<"step", 3, 1, 1>>, <<"step", 2, 3, 1>>, <<"step", 2, 5, 1>>,
      <<"step", 4, 3, 2>>, <<"step", 5, 5, 1>>, <<"step", 3, 9, 1>>,
      <<"step", 6, 6, 1>> }

\* circle_radius values, in tenths: none, the default 0.2, 0.6, all cells.
Radii == {-1, 2, 6, 15}

\* step_height values, in twentieths: -0.5, 0, 0.25, 0.5, 1.0, 1.5, 2.0.
Heights == {-10, 0, 5, 10, 20, 30, 40}

Args ==
    IF solver = "circle" THEN Radii
    ELSE IF solver = "step" THEN Heights
    ELSE {0}

\* Mutant: one iteration cap for all three scripts.
CapShared == CapCircle

\* range(5000) / range(2000) / range(1000)
Cap ==
    IF solver = "free" THEN CapFree
    ELSE IF solver = "circle" THEN CapCircle
    ELSE CapStep

NoRet == [none |-> TRUE]
NoFirst == [none |-> TRUE]
NoLaplacian == [none |-> TRUE]

\* Mutant: a grid without interior cells refused.
GridSpacingStrict == nx < 3 \/ ny < 3

\* dx = 2.0 / (nx - 1), dy = 2.0 / (ny - 1): float division by zero
GridSpacingFails == nx = 1 \/ ny = 1

\* psi[step_idx, step_start_idx:] with step_idx past the last row
StepIndexFails(v) == solver = "step" /\ v > 0 /\ step_idx(v) > ny - 1

\* Mutant: the previous field reused as the start (a warm start).
AllocateWarm == psi

\* psi = np.zeros((ny, nx))
Allocate == Zeros

MaskOf(v) ==
    IF solver = "circle" THEN circle_mask(v)
    ELSE IF solver = "step" THEN solid_mask(v)
    ELSE NoMask

\* The boundary conditions set before the loop.
Imprint(f, v) ==
    IF solver = "circle" THEN ImprintCircle(f, circle_mask(v))
    ELSE IF solver = "step" THEN ImprintStep(f, v)
    ELSE ImprintFree(f)

\* "Reapply boundary conditions", at the end of every sweep.
Reimprint(f, v) ==
    IF solver = "circle" THEN ImprintCircle(f, circle_mask(v))
    ELSE IF solver = "step" THEN ReimprintStep(f, v)
    ELSE ImprintFree(f)

\* 0.25 * s, rounded
Quarter(s) == RoundDiv(s, 4)

\* Mutant: a Jacobi update, reading the copy of the previous sweep.
RelaxedJacobi(f, i, j) ==
    Quarter(psi_old[i + 1][j] + psi_old[i - 1][j]
            + psi_old[i][j + 1] + psi_old[i][j - 1])

\* Mutant: the row above counted twice, the row below not at all.
RelaxedSkewed(f, i, j) ==
    Quarter(f[i + 1][j] + f[i + 1][j] + f[i][j + 1] + f[i][j - 1])

\* 0.25 * (psi[i+1, j] + psi[i-1, j] + psi[i, j+1] + psi[i, j-1])
Relaxed(f, i, j) ==
    Quarter(f[i + 1][j] + f[i - 1][j] + f[i][j + 1] + f[i][j - 1])

\* Mutant: the mask test dropped.
RelaxableAlways(i, j) == TRUE

\* "if not mask[i, j]" (no test in Freestream, whose mask is empty)
Relaxable(i, j) == ~mask[i][j]

\* The cell after (i, j) in "for i in range(1, ny-1): for j in
\* range(1, nx-1)"; <<0, 0>> after the last one.
NextCell(i, j) ==
    IF j < nx - 2 THEN <<i, j + 1>>
    ELSE IF i < ny - 2 THEN <<i + 1, 1>>
    ELSE <<0, 0>>

\* np.max(np.abs(f - g))
MaxAbsDiff(f, g) ==
    Max({Abs(f[i][j] - g[i][j]) : i \in Rows, j \in Cols})

\* Mutant: the break never taken.
ConvergedNever(d) == FALSE

\* "if np.max(np.abs(psi - psi_old)) < 1e-6"
Converged(d) == d < tolerance

\* Mutant: the step solver prints as the other two do.
AnnouncesAll == TRUE

\* The print of "Converged after N iterations": absent from the step solver.
Announces == solver \in {"free", "circle"}

\* X, Y = np.meshgrid(x, y)
MeshX == [i \in Rows |-> [j \in Cols |-> x(j)]]
MeshY == [i \in Rows |-> [j \in Cols |-> y(i)]]

\* compute_laplacian(f, dx, dy) at an interior cell, with 1 / dx^2 =
\* (nx-1)^2 / 4 and 1 / dy^2 = (ny-1)^2 / 4; 0 elsewhere.
SecondDiff(a, b, c, m) ==
    LET d == a - 2 * b + c
    IN  (d \div 4) * (m * m) + RoundDiv((d % 4) * (m * m), 4)

compute_laplacian(f) ==
    [i \in Rows |-> [j \in Cols |->
        IF 1 <= i /\ i <= ny - 2 /\ 1 <= j /\ j <= nx - 2
        THEN SecondDiff(f[i][j + 1], f[i][j], f[i][j - 1], nx - 1)
             + SecondDiff(f[i + 1][j], f[i][j], f[i - 1][j], ny - 1)
        ELSE 0]]

\* "return X, Y, psi" / "return X, Y, psi, mask"
Returned ==
    IF solver = "free"
    THEN [X |-> MeshX, Y |-> MeshY, psi |-> psi]
    ELSE [X |-> MeshX, Y |-> MeshY, psi |-> psi, mask |-> mask]

\* The cells that neither the first imprint nor the re-imprint assigns:
\* a marker value (no boundary value) written there survives both.
Marked == [i \in Rows |-> [j \in Cols |-> 7]]
Untouched(v) ==
    LET a == Imprint(Marked, v)
        b == Reimprint(Marked, v)
    IN  {c \in Rows \X Cols : a[c[1]][c[2]] = 7 /\ b[c[1]][c[2]] = 7}

\* "points = []", an image without marks, no event handled yet.
ClickInit ==
    /\ points = <<>>
    /\ artists = <<>>
    /\ redraws = 0
    /\ events = <<>>
    /\ prev = [points |-> <<>>, artists |-> <<>>, redraws |-> 0]

TypeOK ==
    /\ <<solver, nx, ny, U_inf>> \in Configs
    /\ pc \in {"idle", "loop", "relax", "reapply", "check", "return", "raised"}
    /\ iteration \in -1 .. Cap

Init ==
    /\ \E c \in Configs :
          /\ solver = c[1]
          /\ nx = c[2]
          /\ ny = c[3]
          /\ U_inf = c[4]
    /\ val = 0
    /\ psi = Zeros
    /\ psi_old = Zeros
    /\ mask = NoMask
    /\ iteration = -1
    /\ ci = 0
    /\ cj = 0
    /\ pc = "idle"
    /\ ret = NoRet
    /\ printed = 0
    /\ err = ""
    /\ psi0 = Zeros
    /\ hist = <<>>
    /\ order = <<>>
    /\ first = NoFirst
    /\ untouched = {}
    /\ seeded = FALSE
    /\ laplacian = NoLaplacian
    /\ ClickInit

\* The call, up to the loop: spacing, allocation, mask, first imprint.
Call ==
    /\ pc \in {"idle", "raised"}
    /\ \E v \in Args :
          /\ val' = v
          /\ IF GridSpacingFails
             THEN /\ pc' = "raised"
                  /\ err' = "ZeroDivisionError"
                  /\ UNCHANGED <<psi, mask, psi0, untouched>>
             ELSE IF StepIndexFails(v)
             THEN /\ pc' = "raised"
                  /\ err' = "IndexError"
                  /\ UNCHANGED <<psi, mask, psi0, untouched>>
             ELSE /\ pc' = "loop"
                  /\ err' = ""
                  /\ psi' = Imprint(Allocate, v)
                  /\ mask' = MaskOf(v)
                  /\ psi0' = psi'
                  /\ untouched' = Untouched(v)
          /\ first' = IF "val" \in DOMAIN first /\ first.val # v
                      THEN [first EXCEPT !.others = TRUE]
                      ELSE first
    /\ iteration' = -1
    /\ ret' = NoRet
    /\ printed' = 0
    /\ hist' = <<>>
    /\ order' = <<>>
    /\ seeded' = FALSE
    /\ laplacian' = NoLaplacian
    /\ UNCHANGED <<solver, nx, ny, U_inf, psi_old, ci, cj>>
    /\ UNCHANGED clickvars

\* "for iteration in range(cap)": the next sweep starts with the copy
\* psi_old = psi.copy(), or the loop is exhausted.
LoopHead ==
    /\ pc = "loop"
    /\ IF iteration + 1 < Cap
       THEN /\ iteration' = iteration + 1
            /\ psi_old' = psi
            /\ order' = <<>>
            /\ IF ny > 2 /\ nx > 2
               THEN pc' = "relax" /\ ci' = 1 /\ cj' = 1
               ELSE pc' = "reapply" /\ UNCHANGED <<ci, cj>>
       ELSE /\ pc' = "return"
            /\ UNCHANGED <<iteration, psi_old, order, ci, cj>>
    /\ UNCHANGED <<solver, nx, ny, U_inf, val, psi, mask, ret, printed, err,
                   psi0, hist, first, untouched, seeded,
                   laplacian>>
    /\ UNCHANGED clickvars

\* One pass of the inner loop body, at cell (ci, cj).
Relax ==
    /\ pc = "relax"
    /\ IF Relaxable(ci, cj)
       THEN /\ psi' = [psi EXCEPT ![ci][cj] = Relaxed(psi, ci, cj)]
            /\ order' = Append(order, <<ci, cj>>)
       ELSE UNCHANGED <<psi, order>>
    /\ LET n == NextCell(ci, cj)
       IN  IF n = <<0, 0>>
           THEN pc' = "reapply" /\ UNCHANGED <<ci, cj>>
           ELSE pc' = "relax" /\ ci' = n[1] /\ cj' = n[2]
    /\ UNCHANGED <<solver, nx, ny, U_inf, val, psi_old, mask, iteration, ret,
                   printed, err, psi0, hist, first, untouched, seeded,
                   laplacian>>
    /\ UNCHANGED clickvars

\* "Reapply boundary conditions"
Reapply ==
    /\ pc = "reapply"
    /\ psi' = Reimprint(psi, val)
    /\ pc' = "check"
    /\ UNCHANGED <<solver, nx, ny, U_inf, val, psi_old, mask, iteration, ci,
                   cj, ret, printed, err, psi0, hist, order, first, untouched,
                   seeded, laplacian>>
    /\ UNCHANGED clickvars

\* "Check convergence": print and break, or go on.
Check ==
    /\ pc = "check"
    /\ LET d == MaxAbsDiff(psi, psi_old)
       IN  /\ hist' = Append(hist, d)
           /\ IF Converged(d)
              THEN /\ pc' = "return"
                   /\ printed' = IF Announces THEN iteration + 1 ELSE 0
              ELSE /\ pc' = "loop"
                   /\ UNCHANGED printed
    /\ UNCHANGED <<solver, nx, ny, U_inf, val, psi, psi_old, mask, iteration,
                   ci, cj, ret, err, psi0, order, first, untouched, seeded,
                   laplacian>>
    /\ UNCHANGED clickvars

\* The return statement.
Return ==
    /\ pc = "return"
    /\ pc' = "idle"
    /\ ret' = Returned
    /\ first' = IF "none" \in DOMAIN first /\ ~seeded
                THEN [val |-> val, psi |-> psi, mask |-> mask,
                      others |-> FALSE]
                ELSE first
    /\ UNCHANGED <<solver, nx, ny, U_inf, val, psi, psi_old, mask, iteration,
                   ci, cj, printed, err, psi0, hist, order, untouched, seeded,
                   laplacian>>
    /\ UNCHANGED clickvars

\* "laplacian = compute_laplacian(psi, dx, dy)", on the field the solve
\* returned: the script's next statement after the solve.
Diagnose ==
    /\ pc = "idle"
    /\ "psi" \in DOMAIN ret
    /\ laplacian = NoLaplacian
    /\ laplacian' = [field |-> compute_laplacian(ret.psi)]
    /\ UNCHANGED <<solver, nx, ny, U_inf, val, psi, psi_old, mask, iteration,
                   ci, cj, pc, ret, printed, err, psi0, hist, order, first,
                   untouched, seeded>>
    /\ UNCHANGED clickvars

Next == Call \/ LoopHead \/ Relax \/ Reapply \/ Check \/ Return \/ Diagnose

Spec == Init /\ [][Next]_vars

\* The sweep applied to a given field: the Freestream loop entered with
\* the linear field psi[i, j] = U_inf * y[i] in place of the imprinted zeros.
LinearField == [i \in Rows |-> [j \in Cols |-> U_inf * LinPos(i, ny)]]

InitLinear ==
    /\ \E c \in Configs :
          /\ c[1] = "free" /\ c[2] > 1 /\ c[3] > 1
          /\ solver = c[1]
          /\ nx = c[2]
          /\ ny = c[3]
          /\ U_inf = c[4]
    /\ val = 0
    /\ psi = LinearField
    /\ psi_old = Zeros
    /\ mask = NoMask
    /\ iteration = -1
    /\ ci = 0
    /\ cj = 0
    /\ pc = "loop"
    /\ ret = NoRet
    /\ printed = 0
    /\ err = ""
    /\ psi0 = LinearField
    /\ hist = <<>>
    /\ order = <<>>
    /\ first = NoFirst
    /\ untouched = Interior
    /\ seeded = TRUE
    /\ laplacian = NoLaplacian
    /\ ClickInit

SpecLinear == InitLinear /\ [][Next]_vars

----------------------------------------------------------------------------
(* Properties *)

\* A call has returned and nothing was called since.
Done == pc = "idle" /\ "psi" \in DOMAIN ret

\* The loop of a call is running.
Solving == pc \in {"loop", "relax", "reapply", "check", "return"}

\* Outer-edge cells and cells of the obstacle (the step surface and the
\* vertical wall lie in the solid mask).
Fixed(i, j) ==
    i = 0 \/ i = ny - 1 \/ j = 0 \/ j = nx - 1 \/ mask[i][j]

\* The change the last completed sweep made.
LastChange == hist[Len(hist)]

\* C1 (as claimed): at the end of every sweep, after the re-imprint, and
\* in the returned field, every outer-edge cell and every obstacle cell
\* holds exactly the value the initial imprint gave it.
C1_BoundaryFixation ==
    /\ (pc \in {"check", "loop", "return"} /\ ~seeded) =>
          \A i \in Rows, j \in Cols : Fixed(i, j) => psi[i][j] = psi0[i][j]
    /\ Done =>
          \A i \in Rows, j \in Cols : Fixed(i, j) => ret.psi[i][j] = psi0[i][j]

\* The same for the two solvers whose re-imprint repeats the order of the
\* first imprint (not a claim; a check that C1 fails by the step solver alone).
C1_FixationFreeCircle == solver # "step" => C1_BoundaryFixation

\* C2: the relaxation assigns no masked cell, at any point of any sweep,
\* and a masked cell that no imprint assigns is 0 in every state of a
\* solve, mid-sweep states included.
C2_MaskEnforcement ==
    /\ \A k \in 1 .. Len(order) : ~mask[order[k][1]][order[k][2]]
    /\ (Solving \/ Done) =>
          \A c \in untouched : mask[c[1]][c[2]] => psi[c[1]][c[2]] = 0

\* C2 witness: the step solver is in the middle of a later sweep, past a
\* masked interior cell that no imprint assigns.
C2_Witness ==
    /\ solver = "step" /\ pc = "relax" /\ iteration >= 1 /\ order # <<>>
    /\ \E c \in untouched \cap Interior : mask[c[1]][c[2]] /\ c[1] < ci

\* C3 (as claimed): on a grid with interior cells every solve returns,
\* after at most the cap of sweeps; none ends in an error.
C3_EverySolveReturns ==
    (nx >= 3 /\ ny >= 3) => (pc # "raised" /\ Len(hist) <= Cap)

\* C4: a sweep is followed by another one only if its change was not
\* below the tolerance (and the cap is not reached); the solver returns
\* after the first sweep whose change is below the tolerance, or after
\* the cap-th sweep; the returned field is the field after that sweep.
C4_EarlyStop ==
    /\ \A k \in 1 .. (Len(hist) - 1) : hist[k] >= tolerance
    /\ pc \in {"loop", "relax", "reapply", "check"} =>
          \A k \in 1 .. Len(hist) : hist[k] >= tolerance
    /\ pc \in {"relax", "reapply", "check"} => Len(hist) < Cap
    /\ (pc = "return" \/ Done) =>
          /\ Len(hist) >= 1
          /\ Len(hist) <= Cap
          /\ LastChange < tolerance \/ Len(hist) = Cap
          /\ MaxAbsDiff(psi, psi_old) = LastChange
    /\ Done => ret.psi = psi

\* C4 witness: a solve returned before the cap, after several sweeps.
C4_Witness ==
    /\ Done /\ Len(hist) > 2 /\ Len(hist) < Cap /\ LastChange < tolerance
    /\ hist[Len(hist) - 1] >= tolerance

\* The other exit: a solve returned at the cap with the tolerance not met.
CapReached == Done /\ Len(hist) = Cap /\ LastChange >= tolerance

\* C5 (as claimed): the value handed back holds, beside the field, a
\* convergence status: the index of the converging sweep, or a distinct
\* "not converged" value (here 0) when the cap came first.
C5_StatusReturned ==
    Done =>
      \E f \in DOMAIN ret \ {"X", "Y", "psi", "mask"} :
        ret[f] = IF LastChange < tolerance THEN Len(hist) ELSE 0

\* C5 (amended): no status is returned - the value is (X, Y, psi) in
\* Freestream and (X, Y, psi, mask) in the others.  Freestream and Cylinder
\* print the 1-based number of the converging sweep and nothing when the
\* cap comes first; the step solver prints nothing in either case.
C5_StatusPrintedOnly ==
    /\ Done =>
          DOMAIN ret = IF solver = "free" THEN {"X", "Y", "psi"}
                       ELSE {"X", "Y", "psi", "mask"}
    /\ (Done /\ solver \in {"free", "circle"} /\ LastChange < tolerance) =>
          printed = Len(hist)
    /\ (Done /\ (solver = "step" \/ LastChange >= tolerance)) => printed = 0
    /\ ~Done => printed \in {0, Len(hist)}

\* C5 witness: the step solver converged after several sweeps and
\* returned, having printed nothing.
C5_Witness ==
    Done /\ solver = "step" /\ Len(hist) > 2 /\ LastChange < tolerance
         /\ printed = 0

\* C6 (as claimed): with nx < 3 or ny < 3 the call fails (with whatever
\* error stands for InvalidGeometry) before any sweep, and returns no field.
C6_InvalidGeometry ==
    (nx < 3 \/ ny < 3) =>
      /\ pc \in {"idle", "raised"}
      /\ ret = NoRet
      /\ hist = <<>>

\* C6 (amended): no solver checks its geometry and InvalidGeometry is
\* never raised.  With nx < 3 or ny < 3: a dimension of 1 raises
\* ZeroDivisionError (the grid spacing) before any sweep; otherwise the
\* call proceeds as on any grid - IndexError in the step solver when
\* step_idx > ny - 1, else at most two sweeps that relax no cell, after
\* which the re-imprinted boundary field is returned.
C6_NoGeometryCheck ==
    /\ err \in {"", "ZeroDivisionError", "IndexError"}
    /\ (nx < 3 \/ ny < 3) =>
          /\ order = <<>>
          /\ Len(hist) <= 2
          /\ (nx = 1 \/ ny = 1) =>
                /\ pc \in {"idle", "raised"}
                /\ ret = NoRet
                /\ pc = "raised" => err = "ZeroDivisionError"
          /\ (nx > 1 /\ ny > 1 /\ pc = "raised") =>
                /\ err = "IndexError"
                /\ solver = "step" /\ val > 0 /\ step_idx(val) > ny - 1
          /\ Done =>
                /\ ret.psi = Reimprint(psi0, val)
                /\ LastChange = 0

\* C6 witness: a solver called on a grid two cells wide has returned.
C6_Witness == Done /\ (nx = 2 \/ ny = 2) /\ Len(hist) >= 1

\* C7: a solve that follows other solves returns the field and the mask
\* that the same argument gave as the very first call.
C7_HistoryIndependence ==
    (Done /\ "val" \in DOMAIN first /\ first.val = val) =>
      /\ ret.psi = first.psi
      /\ solver # "free" => ret.mask = first.mask

\* C7 witness: the first call's argument was solved again, after a solve
\* with another argument, over several sweeps.
C7_Witness ==
    /\ Done /\ "val" \in DOMAIN first /\ first.val = val /\ first.others
    /\ Len(hist) > 2

RECURSIVE SumDiffs(_, _, _, _)
\* Sum of the adjacent differences f[i+1][j] - f[i][j] for i in a .. b-1.
SumDiffs(f, j, a, b) ==
    IF a >= b THEN 0
    ELSE (f[a + 1][j] - f[a][j]) + SumDiffs(f, j, a + 1, b)

\* The lowest row of the exit span: the first row with y[i] >= -1 + h.
ExitBottomRow == CHOOSE i \in Rows :
    /\ AboveExitBottom(i, val)
    /\ \A k \in Rows : AboveExitBottom(k, val) => i <= k

\* The flow through one grid cell at the exit, by the exit formula.
CellFlow == ExitValue(1, val) - ExitValue(0, val)

\* C8 (as claimed): in the field the step solver returns for a height in
\* [0, 1.8], the adjacent differences of the right column over the exit
\* span sum to those of the left column over the inlet span, up to one
\* grid cell.
C8_MassConservation ==
    (Done /\ solver = "step" /\ 0 <= val /\ val <= ClipHi) =>
      Abs(SumDiffs(ret.psi, nx - 1, ExitBottomRow, ny - 1)
          - SumDiffs(ret.psi, 0, 0, ny - 1)) <= CellFlow

\* The 5-point residual of f at an interior cell: the sum of the four
\* neighbours minus four times the cell.
Residual(f, i, j) ==
    f[i + 1][j] + f[i - 1][j] + f[i][j + 1] + f[i][j - 1] - 4 * f[i][j]

\* The sweep and the re-imprint leave the linear field as it is (up to
\* one rounding unit), and a solver started on it stops after one sweep.
LinearIsFixed ==
    /\ (seeded /\ pc \in {"relax", "reapply", "check", "return", "idle"}) =>
          MaxAbsDiff(psi, LinearField) <= 1
    /\ (seeded /\ pc \in {"return", "idle"}) =>
          Len(hist) = 1 /\ LastChange < tolerance

\* C9 (as claimed): the linear field is unchanged by a sweep and the
\* re-imprint; the field Freestream returns on convergence is the linear
\* field to within the tolerance, and its discrete Laplacian is zero to
\* within the tolerance at every interior cell.
C9_LinearWithinTolerance ==
    /\ LinearIsFixed
    /\ (Done /\ solver = "free" /\ LastChange < tolerance) =>
          /\ MaxAbsDiff(ret.psi, LinearField) <= tolerance
          /\ \A c \in Interior :
                Abs(compute_laplacian(ret.psi)[c[1]][c[2]]) <= tolerance

\* C9 (amended): the linear field is unchanged by a sweep and the
\* re-imprint (up to rounding).  In the field Freestream returns on
\* convergence every interior cell is within tolerance / 2 of the mean of
\* its four neighbours: the residual is at most 2 * tolerance, and on a
\* square grid the Laplacian at most 2 * tolerance / dx^2 - not the
\* tolerance; nor is the field within the tolerance of the linear one.
C9_LinearResidual ==
    /\ LinearIsFixed
    /\ (Done /\ solver = "free" /\ LastChange < tolerance) =>
          \A c \in Interior :
            /\ Abs(Residual(ret.psi, c[1], c[2])) <= 2 * tolerance
            /\ nx = ny =>
                  Abs(compute_laplacian(ret.psi)[c[1]][c[2]])
                    <= (tolerance * (nx - 1) * (nx - 1)) \div 2 + 1

\* C9 witness: Freestream, started from zeros, converged to a field off
\* the linear one by more than the tolerance.
C9_Witness ==
    /\ Done /\ solver = "free" /\ ~seeded /\ LastChange < tolerance
    /\ MaxAbsDiff(ret.psi, LinearField) > tolerance

\* The sweep was applied to the linear field and the solver returned it.
C9_SeededReturned == Done /\ seeded /\ nx > 4 /\ ny > 4

\* Position of a cell in row-major order.
RowMajor(c) == c[1] * nx + c[2]

\* C10: within a sweep the relaxation assigns the unmasked interior cells
\* in row-major order, each once: mid-sweep exactly those before the
\* cursor, at the end of the sweep all of them.  The value assigned to
\* (i, j) is a quarter of the sum of this sweep's values of (i-1, j) and
\* (i, j-1) and the previous sweep's values of (i+1, j) and (i, j+1).
C10_SweepOrder ==
    /\ \A k, l \in 1 .. Len(order) :
          k < l => RowMajor(order[k]) < RowMajor(order[l])
    /\ pc = "relax" =>
          {order[k] : k \in 1 .. Len(order)} =
            {c \in Interior : /\ ~mask[c[1]][c[2]]
                              /\ RowMajor(c) < RowMajor(<<ci, cj>>)}
    /\ pc \in {"reapply", "check"} =>
          {order[k] : k \in 1 .. Len(order)} =
            {c \in Interior : ~mask[c[1]][c[2]]}
    /\ pc \in {"relax", "reapply"} =>
          \A k \in 1 .. Len(order) :
            LET i == order[k][1]
                j == order[k][2]
            IN  psi[i][j] = RoundDiv(psi_old[i + 1][j] + psi[i - 1][j]
                                     + psi_old[i][j + 1] + psi[i][j - 1], 4)

\* C10 witness: the end of a later sweep over an obstacle, in which a
\* cell took a value that depends on a neighbour assigned before it.
C10_Witness ==
    /\ pc = "reapply" /\ iteration >= 1 /\ Len(order) >= 4
    /\ \E c \in Interior : mask[c[1]][c[2]]
    /\ \E k \in 1 .. Len(order) :
          LET i == order[k][1]
              j == order[k][2]
          IN  /\ <<i, j - 1>> \in {order[l] : l \in 1 .. Len(order)}
              /\ psi[i][j - 1] # psi_old[i][j - 1]

----------------------------------------------------------------------------
(* The obstacle-free channel, by the code of Cylinder.py, as a function *)

RECURSIVE ChannelRelax(_, _)
\* Cylinder.py lines 52-55 with an all-false mask, from cell c to the end
\* of the loops.
ChannelRelax(f, c) ==
    IF c = <<0, 0>> THEN f
    ELSE ChannelRelax([f EXCEPT ![c[1]][c[2]] = Relaxed(f, c[1], c[2])],
                      NextCell(c[1], c[2]))

\* One pass of the loop body of Cylinder.py (lines 52-64), no obstacle.
ChannelSweep(f) ==
    ImprintCircle(IF nx > 2 /\ ny > 2 THEN ChannelRelax(f, <<1, 1>>) ELSE f,
                  NoMask)

\* The field Cylinder.py imprints before its loop (lines 20-45), no obstacle.
ChannelStart == ImprintCircle(Zeros, NoMask)

\* A solve without obstacle between the walls psi = -U and psi = +U:
\* the step solver with step_height <= 0, Cylinder with an all-false mask.
ChannelSolve ==
    /\ solver \in {"step", "circle"}
    /\ Solving \/ Done
    /\ mask = NoMask
    /\ solver = "step" => val <= 0

\* The sweeps the loop of Cylinder.py (lines 48-69) performs when the
\* changes of its sweeps are h[1], h[2], ...: it ends with the first
\* change below the tolerance, or with sweep number cap.
StopsAt(h, n, cap) ==
    /\ 1 <= n /\ n <= cap /\ n <= Len(h)
    /\ \A k \in 1 .. (n - 1) : ~Converged(h[k])
    /\ Converged(h[n]) \/ n = cap

\* In a channel solve, whichever solver runs, the field before the first
\* sweep is the channel's start field, and the field at the end of every
\* sweep is the channel sweep of the field at its start: after k sweeps
\* both solvers hold the k-th iterate of ChannelSweep on ChannelStart, and
\* the k-th entry of hist is the change of that iterate.
SameFields ==
    /\ ChannelSolve => psi0 = ChannelStart
    /\ (ChannelSolve /\ pc = "loop" /\ iteration = -1) => psi = psi0
    /\ (ChannelSolve /\ pc \in {"relax", "reapply", "check"}
                     /\ iteration = 0) => psi_old = psi0
    /\ (ChannelSolve /\ pc = "check") => psi = ChannelSweep(psi_old)
    /\ (ChannelSolve /\ pc \in {"loop", "return"} /\ iteration >= 0) =>
          /\ psi = ChannelSweep(psi_old)
          /\ LastChange = MaxAbsDiff(psi, psi_old)
          /\ Len(hist) = iteration + 1

\* C11 (as claimed): the step solver with step_height = 0 and the
\* obstacle-free channel solved by Cylinder's code hold the same field
\* after every sweep and stop at the same sweep: the step solver stops
\* where the loop of Cylinder.py stops on the same changes.
C11_VariantEquivalence ==
    /\ SameFields
    /\ (ChannelSolve /\ Done) => StopsAt(hist, Len(hist), CapCircle)

\* C11 (amended): the two hold the same field after every sweep both
\* perform, and the same tolerance test closes the sweep; the iteration
\* caps differ (1000 in the step solver, 2000 in Cylinder, 5000 in
\* Freestream), so the two stop at the same sweep only if the tolerance is
\* met before the smaller cap - otherwise each stops at its own cap.
C11_EquivalentUpToCap ==
    /\ SameFields
    /\ (ChannelSolve /\ Done) =>
          /\ StopsAt(hist, Len(hist),
                     IF solver = "step" THEN CapStep ELSE CapCircle)
          /\ ret.psi = ChannelSweep(psi_old)
          /\ LastChange < tolerance => StopsAt(hist, Len(hist), CapCircle)
          /\ (solver = "step" /\ LastChange >= tolerance) =>
                /\ Len(hist) = CapStep
                /\ CapStep < CapCircle
                /\ ~StopsAt(hist, Len(hist), CapCircle)

\* C11 witness: the step solver with step_height = 0 stopped at its cap,
\* the tolerance not met, on a grid with interior cells.
C11_Witness ==
    /\ ChannelSolve /\ Done /\ solver = "step" /\ val = 0
    /\ nx > 2 /\ ny > 2 /\ Len(hist) = CapStep /\ LastChange >= tolerance

\* The other case: both solvers met the tolerance on the same 5x5 grid.
C11_ConvergedStep ==
    ChannelSolve /\ Done /\ solver = "step" /\ val = 0 /\ nx = 5 /\ ny = 5
                 /\ LastChange < tolerance
C11_ConvergedCircle ==
    ChannelSolve /\ Done /\ solver = "circle" /\ U_inf = 1 /\ nx = 5
                 /\ ny = 5 /\ LastChange < tolerance

----------------------------------------------------------------------------
(* The residual diagnostic *)

\* A field the sweep leaves as it is: every interior cell outside the
\* mask holds what the relaxation would assign to it.
FixedPoint(f) ==
    \A c \in Interior :
      ~mask[c[1]][c[2]] => f[c[1]][c[2]] = Relaxed(f, c[1], c[2])

\* The largest Laplacian that the rounding of 0.25 * s alone can leave at
\* a cell of a fixed point: the cell is within half a unit of the mean.
RoundingOnly ==
    LET m == Max({nx, ny}) - 1
    IN  (m * m) \div 2 + 2

\* compute_laplacian has run on the field of a solve with interior cells.
Diagnosed == "field" \in DOMAIN laplacian /\ nx >= 3 /\ ny >= 3

\* C12 (as claimed): on every grid with interior cells, square or not,
\* compute_laplacian leaves psi as it is and returns 0 on the four edges;
\* and if the field is a fixed point of the sweep, it returns 0 (up to
\* the rounding of the fixed point) at every interior cell outside the mask.
C12_ResidualDiagnostic ==
    Diagnosed =>
      /\ psi = ret.psi
      /\ \A i \in Rows, j \in Cols :
            (i = 0 \/ i = ny - 1 \/ j = 0 \/ j = nx - 1) =>
               laplacian.field[i][j] = 0
      /\ FixedPoint(ret.psi) =>
            \A c \in Interior :
              ~mask[c[1]][c[2]] =>
                 Abs(laplacian.field[c[1]][c[2]]) <= RoundingOnly

\* The same on square grids, where dx = dy (not a claim: the claim fails
\* by the grids with nx # ny alone).
C12_SquareGrids == nx = ny => C12_ResidualDiagnostic

\* A fixed point was diagnosed on a square grid with an obstacle.
C12_SquareFixedPoint ==
    /\ Diagnosed /\ nx = ny /\ FixedPoint(ret.psi) /\ Len(hist) > 2
    /\ \E c \in Interior : mask[c[1]][c[2]]

----------------------------------------------------------------------------
(* The step geometry *)

\* The step solver was called on a grid with interior rows.
StepCalled == solver = "step" /\ ny >= 3 /\ pc # "idle"

\* C13 (as claimed): for every step height, the row index step_idx lies
\* in 0 .. ny-1, no call of the step solver ends in an index error, and
\* the field returned has ny rows of nx cells.
C13_StepIndexInRange ==
    /\ (StepCalled \/ (solver = "step" /\ ny >= 3 /\ Done)) =>
          /\ 0 <= step_idx(val) /\ step_idx(val) <= ny - 1
          /\ err # "IndexError"
    /\ (solver = "step" /\ Done) =>
          /\ DOMAIN ret.psi = Rows
          /\ \A i \in Rows : DOMAIN ret.psi[i] = Cols

\* The heights for which the index is in range (not a claim): up to 1.0
\* the call reaches the loop.
C13_InRangeUpToOne ==
    (StepCalled /\ val <= HeightDen) =>
      /\ 0 <= step_idx(val) /\ step_idx(val) <= ny - 1
      /\ err # "IndexError"

\* y[i] <= -1 + h, for the height h / HeightDen (exact: y[i] is
\* (2i - (ny-1)) / (ny-1)).
RowAtOrBelow(i, h) == 2 * HeightDen * i <= h * (ny - 1)

\* The step solver runs, or has returned, for a height in (0, 1.8].
StepSolved ==
    /\ solver = "step" /\ ny >= 3
    /\ 0 < val /\ val <= ClipHi
    /\ Solving \/ Done

\* C14 (as claimed): the top row of the solid mask, row step_idx, is the
\* grid row at height -1 + h: y[step_idx] <= -1 + h < y[step_idx + 1];
\* and no row of the right boundary that receives an exit value (y[i] >=
\* -1 + h) lies strictly inside the solid mask (below its top row).
C14_StepGeometry ==
    StepSolved =>
      /\ RowAtOrBelow(step_idx(val), val)
      /\ ~RowAtOrBelow(step_idx(val) + 1, val)
      /\ \A i \in Rows :
            AboveExitBottom(i, val) =>
               ~(mask[i][nx - 1] /\ i < step_idx(val))

\* What the code does instead (not a claim): row step_idx is the grid row
\* at height y = h, the step height read as a coordinate:
\* y[step_idx] <= h < y[step_idx + 1].
C14_RowAtHeightAsCoordinate ==
    StepSolved =>
      /\ RowAtOrBelow(step_idx(val), val + HeightDen)
      /\ ~RowAtOrBelow(step_idx(val) + 1, val + HeightDen)

----------------------------------------------------------------------------
(* Image_Interrogation/Matplotlib example.py: the measurement tool *)

\* Number of click events followed.
MaxClicks == 4

\* The button_press_event objects delivered: inaxes is the image axes
\* ("ax"), the colour bar's axes ("colorbar") or None; xdata and ydata are
\* in halves of a pixel (both None, here 0, outside every axes).
Events ==
    { [inaxes |-> "ax", xdata |-> 1, ydata |-> 1],
      [inaxes |-> "ax", xdata |-> 3, ydata |-> 8],
      [inaxes |-> "ax", xdata |-> 6, ydata |-> -1],
      [inaxes |-> "colorbar", xdata |-> 1, ydata |-> 5],
      [inaxes |-> "none", xdata |-> 0, ydata |-> 0] }

\* int(round(v)) for v = h / 2: Python rounds halves to even.
RoundHalves(h) == RoundDiv(h, 2)

\* (x, y) of an event
Clicked(event) == <<RoundHalves(event.xdata), RoundHalves(event.ydata)>>

\* (x2-x1)**2 + (y2-y1)**2
SquaredDistance(p, q) ==
    (q[1] - p[1]) * (q[1] - p[1]) + (q[2] - p[2]) * (q[2] - p[2])

\* f'{d2**0.5:.1f}' in tenths: the t with t/10 nearest to the root (no
\* tie exists: 400 * d2 is not the square of an odd number).
Tenths(d2) ==
    CHOOSE t \in 0 .. (10 * d2 + 1) :
      /\ t = 0 \/ (2 * t - 1) * (2 * t - 1) <= 400 * d2
      /\ 400 * d2 < (2 * t + 1) * (2 * t + 1)

\* ax.plot(x, y, 'ro', markersize=5)
Dot(p) == [kind |-> "dot", at |-> p]

\* The text 'd=...' at ((x1 + x2) / 2, (y1 + y2) / 2): the position is
\* kept doubled.
DistanceText(p, q) ==
    [kind |-> "text", tenths |-> Tenths(SquaredDistance(p, q)),
     at2 |-> <<p[1] + q[1], p[2] + q[2]>>]

\* ax.plot([x1, x2], [y1, y2], 'r--')
DashedLine(p, q) == [kind |-> "line", from |-> p, to |-> q]

\* Mutant: only the older point dropped after a measurement.
ClearedOldest(p) == Tail(p)

\* points.clear()
Cleared(p) == <<>>

\* on_click(event), lines 19-52.
on_click ==
    /\ Len(events) < MaxClicks
    /\ \E event \in Events :
          /\ events' = Append(events, event)
          /\ prev' = [points |-> points, artists |-> artists,
                      redraws |-> redraws]
          /\ IF event.inaxes # "ax"
             THEN UNCHANGED <<points, artists, redraws>>
             ELSE LET p == Append(points, Clicked(event))
                      a == Append(artists, Dot(Clicked(event)))
                  IN  /\ IF Len(p) = 2
                         THEN /\ artists' = a \o <<DistanceText(p[1], p[2]),
                                                   DashedLine(p[1], p[2])>>
                              /\ points' = Cleared(p)
                         ELSE /\ artists' = a
                              /\ points' = p
                      /\ redraws' = redraws + 1
    /\ UNCHANGED solvervars

NextClick == on_click

SpecClick == Init /\ [][NextClick]_vars

\* The events inside the image axes, in order, and the points clicked.
IsInside(event) == event.inaxes = "ax"
Inside == SelectSeq(events, IsInside)
InsidePoint(k) == Clicked(Inside[k])

IsDot(a) == a.kind = "dot"
IsText(a) == a.kind = "text"
IsLine(a) == a.kind = "line"

\* C15: after every on_click, points holds 0 or 1 point; an event outside
\* the image axes leaves points and the drawing as they were; the n-th
\* click inside the axes draws a distance exactly when n is even, the
\* distance from the (n-1)-th to the n-th inside click, and points is
\* empty after it (after an odd click it holds that click).
C15_ClickPairing ==
    LET n == Len(Inside)
        dots == SelectSeq(artists, IsDot)
        texts == SelectSeq(artists, IsText)
        lines == SelectSeq(artists, IsLine)
        last == events[Len(events)]
    IN  /\ Len(points) <= 1
        /\ points = IF n % 2 = 0 THEN <<>> ELSE <<InsidePoint(n)>>
        /\ Len(dots) = n
        /\ \A k \in 1 .. n : dots[k] = Dot(InsidePoint(k))
        /\ Len(texts) = n \div 2 /\ Len(lines) = n \div 2
        /\ \A k \in 1 .. (n \div 2) :
              /\ texts[k] = DistanceText(InsidePoint(2 * k - 1),
                                         InsidePoint(2 * k))
              /\ lines[k] = DashedLine(InsidePoint(2 * k - 1),
                                       InsidePoint(2 * k))
        /\ redraws = n
        /\ (events # <<>> /\ ~IsInside(last)) =>
              /\ points = prev.points
              /\ artists = prev.artists
              /\ redraws = prev.redraws
        /\ (events # <<>> /\ IsInside(last)) =>
              /\ redraws = prev.redraws + 1
              /\ n % 2 = 0 =>
                    artists = prev.artists \o
                      <<Dot(InsidePoint(n)),
                        DistanceText(InsidePoint(n - 1), InsidePoint(n)),
                        DashedLine(InsidePoint(n - 1), InsidePoint(n))>>
              /\ n % 2 = 1 =>
                    artists = Append(prev.artists, Dot(InsidePoint(n)))

\* C15 witness: the fourth inside click would be the next one: three
\* clicks inside the axes with a click outside between the second and
\* the third, one distance drawn (4.5 or 4.1, not 0), one point pending.
C15_Witness ==
    /\ Len(events) = 4 /\ Len(Inside) = 3
    /\ ~IsInside(events[3])
    /\ Len(points) = 1
    /\ \E k \in 1 .. Len(artists) :
          IsText(artists[k]) /\ artists[k].tenths \in {41, 45}

=============================================================================
